---------------------------- MODULE Spec2Model ----------------------------
(***************************************************************************)
(* A model of the go-tcap TLV/BER codec: the ASN.1 length codec            *)
(* (src/util.go and the older two-result copy at the end of                *)
(* src/unnamed/part_000) and the IE codec (src/unnamed/part_000).          *)
(*                                                                         *)
(* Byte slices are sequences of numbers 0..255; the Go slice b[lo:hi] is   *)
(* Slice(b, lo, hi).  A run-time panic (index or slice bounds out of       *)
(* range) is an outcome of its own, "panic", next to a result and an       *)
(* error.  The cursor loops of ParseMultiIEs and ParseAsBER and the        *)
(* recursion ParseAsBER -> ParseRecursive -> ParseAsBER are modelled step  *)
(* by step over an explicit call stack.                                    *)
(***************************************************************************)
EXTENDS Integers, Sequences, FiniteSets

VARIABLES
    pc,     \* "idle": nothing called yet; "running": a parse loop is running;
            \* "done": the call has returned and the caller holds its result
    op,     \* the public operation called last
    buf,    \* the byte buffer handed to it (input, or destination of MarshalTo)
    kind,   \* how the input was produced: "raw", "marshalled", "constructed", ...
    from,   \* the IEs a marshalled / constructed input buffer was encoded from
    ie,     \* the IE handed to MarshalTo / MarshalBinary
    n,      \* the integer handed to MarshalAsn1ElementLength
    stack,  \* call stack of the running parse: frames of the cursor loops
    out     \* what the call returned

vars == <<pc, op, buf, kind, from, ie, n, stack, out>>

---------------------------------------------------------------------------
(* Bounds of the model and the representative inputs.                      *)

\* raw input buffers: every byte string over RawBytes up to this length
MaxBufLen == 5
\* lists of IEs that are marshalled and concatenated: up to this many
MaxItems == 2
\* destination buffers handed to MarshalTo: make([]byte, 0..MaxDst)
MaxDst == 4
\* lengths handed to the length codec: every 0..MaxLength, plus the boundaries
MaxLength == 300

\* 0x00, 0x01, 0x02: primitive tags and short lengths; 0x24: a constructed
\* tag (form bit set); 0x80: indefinite length; 0x81: long form, one octet.
RawBytes == {0, 1, 2, 36, 128, 129}

\* 2^16-1, 2^16, 2^24-1, 2^24, 2^31-1, 2^31, 2^32-1, as halves <<hi, lo>>
BoundaryLengths ==
    {<<0, 65535>>, <<1, 0>>, <<255, 65535>>, <<256, 0>>, <<32767, 65535>>,
     <<32768, 0>>, <<65535, 65535>>}

LengthInputs == {<<0, x>> : x \in 0..MaxLength} \cup BoundaryLengths

\* value lengths of the IEs that are built: empty, short, and long enough to
\* make the element itself (128) or its enclosing element (126 + 2) long form
ValueLens == {0, 1, 126, 128}

PrimitiveTags == {4, 129}      \* 0x04 universal primitive, 0x81 context primitive
ConstructorTags == {48}         \* 0x30 universal constructor

---------------------------------------------------------------------------
(* Go slices.                                                              *)

Slice(b, lo, hi) == SubSeq(b, lo + 1, hi)

Zeros(k) == [j \in 1..k |-> 0]

Min(a, b) == IF a < b THEN a ELSE b

\* the builtin copy(dst[lo:hi], src), as its effect on dst
Copy(dst, lo, hi, src) ==
    LET k == Min(hi - lo, Len(src))
    IN  [j \in 1..Len(dst) |-> IF j > lo /\ j <= lo + k THEN src[j - lo] ELSE dst[j]]

RECURSIVE SeqsUpTo(_, _)
SeqsUpTo(S, k) ==
    IF k = 0 THEN {<<>>}
    ELSE LET shorter == SeqsUpTo(S, k - 1)
         IN  shorter \cup {Append(s, x) : s \in {t \in shorter : Len(t) = k - 1}, x \in S}

RECURSIVE Concat(_)
Concat(ss) == IF ss = <<>> THEN <<>> ELSE Head(ss) \o Concat(Tail(ss))

---------------------------------------------------------------------------
(* Errors.                                                                 *)

Nil == "nil"
ErrUnexpectedEOF == "io.ErrUnexpectedEOF"
ErrShortBuffer == "io.ErrShortBuffer"
ErrTooShort == "buffer too short to read length"
ErrIndefinite == "indefinite length not supported"
ErrShortLongForm == "buffer too short for long-form length"

---------------------------------------------------------------------------
(* Length codec.                                                           *)

\* uint32(x) of a length: the identity on 0..2^31-1, the integers of the model
\* The integers of the length codec reach 2^32-1.  An int x that the codec
\* takes or returns is kept as <<hi, lo>> with x = hi * 2^16 + lo and
\* lo in 0..65535 (int is 64 bits wide); a uint32 has hi in 0..65535 too.
Wide(x) == <<x \div 65536, x % 65536>>

\* uint32(x): the low 32 bits
Uint32(x) == <<x[1] % 65536, x[2]>>

\* x >> 8
ShiftRight8(x) == <<x[1] \div 256, (x[1] % 256) * 256 + (x[2] \div 256)>>

\* (x << 8) | uint32(c): the top byte is shifted out
ShiftLeft8Or(x, c) == <<(x[1] % 256) * 256 + (x[2] \div 256), (x[2] % 256) * 256 + c>>

\* x is below 2^31: the lengths the IE codec computes with
InRange(x) == x[1] < 32768

ToInt(x) == x[1] * 65536 + x[2]

\* the accumulation loop: actualLength = (actualLength << 8) | uint32(b[2+i])
\* for i = lo, ..., hi-1 in this order.  The steps and their order are those
\* of the loop; the range is halved and the value after the first half is
\* bound (y) before the second half starts, which keeps the evaluation shallow
RECURSIVE AccumulateLength(_, _, _, _)
AccumulateLength(b, lo, hi, actualLength) ==
    IF lo >= hi THEN actualLength
    ELSE IF hi = lo + 1 THEN ShiftLeft8Or(actualLength, b[2 + lo + 1])
    ELSE LET mid == (lo + hi) \div 2
         IN  CHOOSE r \in {AccumulateLength(b, mid, hi, y) :
                             y \in {AccumulateLength(b, lo, mid, actualLength)}} : TRUE

\* what a call of the length decoder returns.  wide: the length as halves;
\* length: the same as one integer when it is below 2^31, else beyond is set
Decoded(length, consumed, err) ==
    [wide |-> length, length |-> IF InRange(length) THEN ToInt(length) ELSE 0,
     consumed |-> consumed, err |-> err, panic |-> FALSE,
     beyond |-> ~InRange(length)]

\* util.go: (length, bytes of the length field, error)
UnmarshalAsn1ElementLength(b) ==
    IF Len(b) < 2 THEN Decoded(Wide(0), 0, ErrTooShort)
    ELSE IF b[2] <= 127 THEN Decoded(Wide(b[2]), 1, Nil)
    ELSE LET numOctets == b[2] % 128
         IN  IF numOctets = 0 THEN Decoded(Wide(-1), 0, ErrIndefinite)
             ELSE IF Len(b) < 2 + numOctets THEN Decoded(Wide(-1), 0, ErrShortLongForm)
             ELSE Decoded(AccumulateLength(b, 0, numOctets, Wide(0)), 1 + numOctets, Nil)

\* the two-result version the IE codec is written against: no check of
\* len(b) before b[1], no count of the bytes consumed
UnmarshalAsn1ElementLength2(b) ==
    IF Len(b) < 2 THEN [Decoded(Wide(0), 0, Nil) EXCEPT !.panic = TRUE]
    ELSE IF b[2] <= 127 THEN Decoded(Wide(b[2]), 0, Nil)
    ELSE LET numOctets == b[2] % 128
         IN  IF numOctets = 0 THEN Decoded(Wide(-1), 0, ErrIndefinite)
             ELSE IF Len(b) < 2 + numOctets THEN Decoded(Wide(-1), 0, ErrShortLongForm)
             ELSE Decoded(AccumulateLength(b, 0, numOctets, Wide(0)), 0, Nil)

\* the extraction loop: valBytes = append([]byte{byte(tempLen & 0xff)}, valBytes...)
\* and tempLen >>= 8, while tempLen > 0
RECURSIVE ValBytes(_)
ValBytes(tempLen) ==
    IF tempLen # <<0, 0>> THEN ValBytes(ShiftRight8(tempLen)) \o <<tempLen[2] % 256>>
    ELSE <<>>

\* length <= 127
AtMost(length, k) == length[1] < 0 \/ (length[1] = 0 /\ length[2] <= k)

MarshalAsn1ElementLengthOffByOne(length) ==
    IF AtMost(length, 128) THEN <<length[2] % 256>>
    ELSE LET valBytes == ValBytes(Uint32(length))
         IN  <<128 + Len(valBytes)>> \o valBytes

\* length: an int as halves
MarshalAsn1ElementLength(length) ==
    IF AtMost(length, 127) THEN <<length[2] % 256>>
    ELSE LET valBytes == ValBytes(Uint32(length))
         IN  <<128 + Len(valBytes)>> \o valBytes

---------------------------------------------------------------------------
(* Tags and IEs.                                                           *)

Form(t) == (t \div 32) % 2

NoIE == [Tag |-> 0, Length |-> 0, Value |-> <<>>, IE |-> <<>>]

SetLength(i) == [i EXCEPT !.Length = Len(i.Value)]

NewIE(tag, value) == SetLength([Tag |-> tag, Length |-> 0, Value |-> value, IE |-> <<>>])

MarshalLenNoTag(i) == Len(MarshalAsn1ElementLength(Wide(i.Length))) + i.Length

MarshalLen(i) == 1 + Len(MarshalAsn1ElementLength(Wide(i.Length))) + i.Length

\* b is the destination; its capacity is its length (make([]byte, k))
MarshalTo(i, b) ==
    IF Len(b) < 2 THEN [b |-> b, err |-> ErrUnexpectedEOF, panic |-> FALSE]
    ELSE LET lenBytes == MarshalAsn1ElementLength(Wide(i.Length))
             totalNeeded == 1 + Len(lenBytes) + Len(i.Value)
             b1 == [b EXCEPT ![1] = i.Tag]
             b2 == Copy(b1, 1, Len(b1), lenBytes)
         IN  IF Len(b) < totalNeeded
             THEN [b |-> b, err |-> ErrShortBuffer, panic |-> FALSE]
             ELSE IF MarshalLen(i) > Len(b)
             THEN [b |-> b2, err |-> Nil, panic |-> TRUE]
             ELSE [b |-> Copy(b2, 2, MarshalLen(i), i.Value), err |-> Nil, panic |-> FALSE]

MarshalBinary(i) ==
    LET r == MarshalTo(i, Zeros(MarshalLen(i)))
    IN  IF r.panic THEN [b |-> <<>>, err |-> Nil, panic |-> TRUE]
        ELSE IF r.err # Nil THEN [b |-> <<>>, err |-> r.err, panic |-> FALSE]
        ELSE [b |-> r.b, err |-> Nil, panic |-> FALSE]

\* a length of 2^31 or more is more than any buffer holds
UnmarshalBinary(b) ==
    IF Len(b) < 3 THEN [ie |-> NoIE, err |-> ErrUnexpectedEOF]
    ELSE LET u == UnmarshalAsn1ElementLength2(b)
         IN  IF u.err # Nil THEN [ie |-> NoIE, err |-> u.err]
             ELSE IF u.beyond \/ Len(b) < 2 + u.length
             THEN [ie |-> NoIE, err |-> ErrUnexpectedEOF]
             ELSE [ie |-> [Tag |-> b[1], Length |-> u.length,
                           Value |-> Slice(b, 2, 2 + u.length), IE |-> <<>>],
                   err |-> Nil]

ParseIE(b) == UnmarshalBinary(b)

\* ParseRecursive up to the recursive call: the IE with tag, length and value
\* set, and whether ParseAsBER is called on the value.  beyond: the IE has a
\* Length that the integers of the model do not hold
ParseRecursive(b) ==
    IF Len(b) < 2
    THEN [ie |-> NoIE, err |-> ErrUnexpectedEOF, descend |-> FALSE, beyond |-> FALSE]
    ELSE LET u == UnmarshalAsn1ElementLength2(b)
         IN  IF u.err # Nil
             THEN [ie |-> NoIE, err |-> u.err, descend |-> FALSE, beyond |-> FALSE]
             ELSE IF u.beyond
             THEN [ie |-> NoIE, err |-> Nil, descend |-> FALSE, beyond |-> TRUE]
             ELSE IF u.length + 2 > Len(b)
             THEN [ie |-> [Tag |-> b[1], Length |-> u.length, Value |-> <<>>, IE |-> <<>>],
                   err |-> Nil, descend |-> FALSE, beyond |-> FALSE]
             ELSE [ie |-> [Tag |-> b[1], Length |-> u.length,
                           Value |-> Slice(b, 2, 2 + u.length), IE |-> <<>>],
                   err |-> Nil, descend |-> Form(b[1]) = 1, beyond |-> FALSE]

---------------------------------------------------------------------------
(* The inputs the operations are called with.                              *)

\* value bytes 0xAA, 0xAB, ..., 0xFF, 0x00, ...
Value(k) == [j \in 1..k |-> (169 + j) % 256]

\* the primitive IEs that are built with NewIE
Items == {NewIE(t, Value(k)) : t \in PrimitiveTags, k \in ValueLens}

ItemLists == SeqsUpTo(Items, MaxItems)

\* the wire layout of one element: tag, length header, value
BER(i) == <<i.Tag>> \o MarshalAsn1ElementLength(Wide(Len(i.Value))) \o i.Value

\* a constructed IE whose value is the concatenation of its children's encodings
Constructed(t, children) ==
    LET v == Concat([j \in 1..Len(children) |-> BER(children[j])])
    IN  [Tag |-> t, Length |-> Len(v), Value |-> v, IE |-> children]

Followers == {<<>>, <<NewIE(4, Value(1))>>}

Input(b, k, f, x) == [buf |-> b, kind |-> k, from |-> f, n |-> x]

RawInputs == {Input(b, "raw", <<>>, Wide(0)) : b \in SeqsUpTo(RawBytes, MaxBufLen)}

\* the concatenation of the MarshalBinary outputs of a list of primitive IEs
MarshalledInputs ==
    {Input(Concat([j \in 1..Len(l) |-> MarshalBinary(l[j]).b]), "marshalled", l, Wide(0)) :
        l \in ItemLists}

\* the encoding of a constructed IE, followed by further top-level elements
ConstructedInputs ==
    {Input(Concat([j \in 1..Len(l) |-> BER(l[j])]), "constructed", l, Wide(0)) :
        l \in {<<Constructed(t, c)>> \o f :
                 t \in ConstructorTags, c \in ItemLists \ {<<>>}, f \in Followers}}

\* one tag byte followed by the length header of x
EncodedInputs ==
    {Input(<<4>> \o MarshalAsn1ElementLength(x), "encoded", <<>>, x) : x \in LengthInputs}

BufferInputs == RawInputs \cup MarshalledInputs \cup ConstructedInputs

---------------------------------------------------------------------------
(* Results.                                                                *)

Out(status, err, ies, bytes, length, consumed) ==
    [status |-> status, err |-> err, ies |-> ies, bytes |-> bytes,
     length |-> length, consumed |-> consumed]

OutRunning == Out("running", Nil, <<>>, <<>>, Wide(0), 0)
OutIEs(ies) == Out("ok", Nil, ies, <<>>, Wide(0), 0)
OutBytes(b) == Out("ok", Nil, <<>>, b, Wide(0), 0)
OutErr(err) == Out("err", err, <<>>, <<>>, Wide(0), 0)
OutPanic == Out("panic", Nil, <<>>, <<>>, Wide(0), 0)
\* the call met a length of 2^31 or more: it is not followed further
OutBeyond == Out("beyond", Nil, <<>>, <<>>, Wide(0), 0)

\* every IE of a returned list, children at every depth included
RECURSIVE AllIEs(_)
AllIEs(ies) ==
    UNION {{ies[j]} \cup AllIEs(ies[j].IE) : j \in 1..Len(ies)}

\* the loop  for _, ie := range i.IE { l += ie.MarshalLen() }  over the
\* children lo+1..hi (the range is halved, which keeps the evaluation shallow)
RECURSIVE SumMarshalLenRange(_, _, _)
SumMarshalLenRange(ies, lo, hi) ==
    IF lo >= hi THEN 0
    ELSE IF hi = lo + 1 THEN MarshalLen(ies[hi])
    ELSE LET mid == (lo + hi) \div 2
         IN  SumMarshalLenRange(ies, lo, mid) + SumMarshalLenRange(ies, mid, hi)

SumMarshalLen(ies) == SumMarshalLenRange(ies, 0, Len(ies))

---------------------------------------------------------------------------
(* The state machine.                                                      *)

Frame(fn, b) == [fn |-> fn, b |-> b, ies |-> <<>>, cur |-> NoIE, st |-> "loop"]

Top == stack[Len(stack)]

ReplaceTop(f) == SubSeq(stack, 1, Len(stack) - 1) \o <<f>>

Init ==
    /\ pc = "idle"
    /\ op = "none"
    /\ buf = <<>>
    /\ kind = "none"
    /\ from = <<>>
    /\ ie = NoIE
    /\ n = Wide(0)
    /\ stack = <<>>
    /\ out = OutIEs(<<>>)

Finish(o) ==
    /\ pc' = "done"
    /\ stack' = <<>>
    /\ out' = o

Called(name, inp) ==
    /\ op' = name
    /\ buf' = inp.buf
    /\ kind' = inp.kind
    /\ from' = inp.from
    /\ n' = inp.n
    /\ ie' = NoIE

CallNewIE ==
    /\ pc = "idle"
    /\ \E t \in PrimitiveTags \cup ConstructorTags, k \in ValueLens :
          /\ Called("NewIE", Input(Value(k), "new", <<>>, Wide(0)))
          /\ Finish(OutIEs(<<NewIE(t, Value(k))>>))

\* the IEs MarshalTo and MarshalBinary are called on: those the last call returned
Marshallable ==
    IF out.status = "ok" /\ op \in {"NewIE", "ParseIE", "ParseMultiIEs",
                                     "ParseIERecursive", "ParseAsBER"}
    THEN AllIEs(out.ies) ELSE {}

CallMarshalBinary ==
    /\ pc = "done"
    /\ \E i \in Marshallable :
          LET r == MarshalBinary(i)
          IN  /\ op' = "MarshalBinary"
              /\ ie' = i
              /\ kind' = IF op = "NewIE" THEN "new" ELSE "parsed"
              /\ buf' = <<>>
              /\ from' = <<>>
              /\ n' = Wide(0)
              /\ Finish(IF r.panic THEN OutPanic
                        ELSE IF r.err # Nil THEN OutErr(r.err) ELSE OutBytes(r.b))

CallMarshalTo ==
    /\ pc = "done"
    /\ \E i \in Marshallable, k \in 0..MaxDst :
          LET r == MarshalTo(i, Zeros(k))
          IN  /\ op' = "MarshalTo"
              /\ ie' = i
              /\ kind' = IF op = "NewIE" THEN "new" ELSE "parsed"
              /\ buf' = Zeros(k)
              /\ from' = <<>>
              /\ n' = Wide(0)
              /\ Finish(IF r.panic THEN OutPanic
                        ELSE IF r.err # Nil THEN OutErr(r.err) ELSE OutBytes(r.b))

CallMarshalAsn1ElementLength ==
    /\ pc = "idle"
    /\ \E x \in LengthInputs :
          /\ Called("MarshalAsn1ElementLength", Input(<<>>, "length", <<>>, x))
          /\ Finish(OutBytes(MarshalAsn1ElementLength(x)))

CallUnmarshalAsn1ElementLength ==
    /\ pc = "idle"
    /\ \E inp \in RawInputs \cup EncodedInputs :
          LET u == UnmarshalAsn1ElementLength(inp.buf)
          IN  /\ Called("UnmarshalAsn1ElementLength", inp)
              /\ Finish(Out(IF u.err = Nil THEN "ok" ELSE "err", u.err, <<>>, <<>>,
                             u.wide, u.consumed))

CallUnmarshalAsn1ElementLength2 ==
    /\ pc = "idle"
    /\ \E inp \in RawInputs \cup EncodedInputs :
          LET u == UnmarshalAsn1ElementLength2(inp.buf)
          IN  /\ Called("UnmarshalAsn1ElementLength2", inp)
              /\ Finish(IF u.panic THEN OutPanic
                        ELSE Out(IF u.err = Nil THEN "ok" ELSE "err", u.err, <<>>, <<>>,
                                 u.wide, 0))

CallParseIE ==
    /\ pc = "idle"
    /\ \E inp \in BufferInputs :
          LET r == ParseIE(inp.buf)
          IN  /\ Called("ParseIE", inp)
              /\ Finish(IF r.err # Nil THEN OutErr(r.err) ELSE OutIEs(<<r.ie>>))

Start(name, inp) ==
    /\ Called(name, inp)
    /\ pc' = "running"
    /\ stack' = <<Frame(name, inp.buf)>>
    /\ out' = OutRunning

CallParseMultiIEs ==
    /\ pc = "idle"
    /\ \E inp \in BufferInputs : Start("ParseMultiIEs", inp)

CallParseIERecursive ==
    /\ pc = "idle"
    /\ \E inp \in BufferInputs : Start("ParseIERecursive", inp)

CallParseAsBER ==
    /\ pc = "idle"
    /\ \E inp \in BufferInputs : Start("ParseAsBER", inp)

\* one iteration of the loop of ParseMultiIEs
ParseMultiIEsStep ==
    /\ pc = "running"
    /\ Top.fn = "ParseMultiIEs"
    /\ UNCHANGED <<op, buf, kind, from, ie, n>>
    /\ IF Len(Top.b) = 0 THEN Finish(OutIEs(Top.ies))
       ELSE LET r == ParseIE(Top.b)
            IN  IF r.err # Nil THEN Finish(OutErr(r.err))
                ELSE IF MarshalLen(r.ie) > Len(Top.b) THEN Finish(OutPanic)
                ELSE /\ pc' = "running"
                     /\ out' = out
                     /\ stack' = ReplaceTop([Top EXCEPT
                            !.ies = Append(Top.ies, r.ie),
                            !.b = Slice(Top.b, MarshalLen(r.ie), Len(Top.b))])

\* ParseAsBER returns (x, err) to its caller: to the public caller, or to the
\* ParseRecursive that called it, which appends x to its children and
\* swallows err
ReturnFromParseAsBER(x, err) ==
    IF Len(stack) = 1 THEN Finish(IF err = Nil THEN OutIEs(x) ELSE OutErr(err))
    ELSE LET p == stack[Len(stack) - 1]
             cur == IF err = Nil THEN [p.cur EXCEPT !.IE = p.cur.IE \o x] ELSE p.cur
         IN  IF p.fn = "ParseIERecursive" THEN Finish(OutIEs(<<cur>>))
             ELSE /\ pc' = "running"
                  /\ out' = out
                  /\ stack' = SubSeq(stack, 1, Len(stack) - 2)
                                \o <<[p EXCEPT !.cur = cur, !.st = "advance"]>>

\* ParseIERecursive: ParseRecursive on the whole buffer
ParseIERecursiveStep ==
    /\ pc = "running"
    /\ Top.fn = "ParseIERecursive"
    /\ Top.st = "loop"
    /\ UNCHANGED <<op, buf, kind, from, ie, n>>
    /\ LET r == ParseRecursive(Top.b)
       IN  IF r.err # Nil THEN Finish(OutErr(r.err))
           ELSE IF r.beyond THEN Finish(OutBeyond)
           ELSE IF r.descend
           THEN /\ pc' = "running"
                /\ out' = out
                /\ stack' = ReplaceTop([Top EXCEPT !.cur = r.ie, !.st = "wait"])
                              \o <<Frame("ParseAsBER", r.ie.Value)>>
           ELSE Finish(OutIEs(<<r.ie>>))

\* the head of one iteration of the loop of ParseAsBER: the end of the
\* buffer, or ParseIERecursive on the rest of it
ParseAsBERStep ==
    /\ pc = "running"
    /\ Top.fn = "ParseAsBER"
    /\ Top.st = "loop"
    /\ UNCHANGED <<op, buf, kind, from, ie, n>>
    /\ IF Len(Top.b) = 0 THEN ReturnFromParseAsBER(Top.ies, Nil)
       ELSE LET r == ParseRecursive(Top.b)
            IN  IF r.err # Nil THEN ReturnFromParseAsBER(<<>>, r.err)
                ELSE IF r.beyond THEN Finish(OutBeyond)
                ELSE /\ pc' = "running"
                     /\ out' = out
                     /\ IF r.descend
                        THEN stack' = ReplaceTop([Top EXCEPT !.cur = r.ie, !.st = "wait"])
                                        \o <<Frame("ParseAsBER", r.ie.Value)>>
                        ELSE stack' = ReplaceTop([Top EXCEPT !.cur = r.ie, !.st = "advance"])

\* how far ParseAsBER moves its cursor past the element i
Advance(i) ==
    IF Len(i.IE) = 0 THEN MarshalLen(i)
    ELSE IF MarshalLen(i.IE[1]) < MarshalLen(i) - 2 THEN 2 + SumMarshalLen(i.IE)
    ELSE MarshalLen(i)

\* the rest of the iteration: append the element, move the cursor
ParseAsBERAdvance ==
    /\ pc = "running"
    /\ Top.fn = "ParseAsBER"
    /\ Top.st = "advance"
    /\ UNCHANGED <<op, buf, kind, from, ie, n>>
    /\ IF Advance(Top.cur) > Len(Top.b) THEN Finish(OutPanic)
       ELSE /\ pc' = "running"
            /\ out' = out
            /\ stack' = ReplaceTop([Top EXCEPT
                   !.ies = Append(Top.ies, Top.cur),
                   !.b = Slice(Top.b, Advance(Top.cur), Len(Top.b)),
                   !.cur = NoIE,
                   !.st = "loop"])

\* the caller drops the result and starts afresh
Release ==
    /\ pc = "done"
    /\ pc' = "idle"
    /\ op' = "none"
    /\ buf' = <<>>
    /\ kind' = "none"
    /\ from' = <<>>
    /\ ie' = NoIE
    /\ n' = Wide(0)
    /\ stack' = <<>>
    /\ out' = OutIEs(<<>>)

Next ==
    \/ CallNewIE
    \/ CallMarshalBinary
    \/ CallMarshalTo
    \/ CallMarshalAsn1ElementLength
    \/ CallUnmarshalAsn1ElementLength
    \/ CallUnmarshalAsn1ElementLength2
    \/ CallParseIE
    \/ CallParseMultiIEs
    \/ CallParseIERecursive
    \/ CallParseAsBER
    \/ ParseMultiIEsStep
    \/ ParseIERecursiveStep
    \/ ParseAsBERStep
    \/ ParseAsBERAdvance
    \/ Release

Spec == Init /\ [][Next]_vars

\* the steps of a call
Step ==
    \/ ParseMultiIEsStep
    \/ ParseIERecursiveStep
    \/ ParseAsBERStep
    \/ ParseAsBERAdvance

\* the loops are sequential code: a call that can take a step takes it
FairSpec == Spec /\ WF_vars(Step)

---------------------------------------------------------------------------
(* The claims.                                                             *)

TopOf(s) == s[Len(s)]

SameIE(a, b) == a.Tag = b.Tag /\ a.Length = b.Length /\ a.Value = b.Value

SameTagValue(a, b) == a.Tag = b.Tag /\ a.Value = b.Value

ParseOps == {"ParseIE", "ParseMultiIEs", "ParseIERecursive", "ParseAsBER"}

\* C1: IE round-trip.  ParseIE on the MarshalBinary output of a primitive IE
\* built by NewIE (any tag, any value length, the empty value and values of
\* 128 bytes included) succeeds and returns an IE with the tag, length and
\* value of the original.
C1_RoundTrip ==
    (pc = "done" /\ op = "ParseIE" /\ kind = "marshalled" /\ Len(from) = 1)
        => /\ out.status = "ok"
           /\ Len(out.ies) = 1
           /\ SameIE(out.ies[1], from[1])

\* C2: serialize layout.  For an IE built by NewIE, the bytes MarshalTo writes
\* and MarshalBinary returns are the tag byte, the complete length header
\* MarshalAsn1ElementLength(Length), and all the value bytes, in this order.
C2_SerializeLayout ==
    (pc = "done" /\ op \in {"MarshalBinary", "MarshalTo"} /\ kind = "new"
                 /\ out.status # "err")
        => /\ out.status = "ok"
           /\ Len(out.bytes) >= Len(BER(ie))
           /\ SubSeq(out.bytes, 1, Len(BER(ie))) = BER(ie)
           /\ op = "MarshalBinary" => Len(out.bytes) = Len(BER(ie))

\* the big-endian bytes s (4 at most) are the number x = <<hi, lo>>
BigEndian(s, x) ==
    LET p == Zeros(4 - Len(s)) \o s
    IN  /\ p[1] * 256 + p[2] = x[1]
        /\ p[3] * 256 + p[4] = x[2]

\* h is the minimal length header of x = <<hi, lo>>
IsMinimalHeader(x, h) ==
    IF x[1] = 0 /\ x[2] <= 127 THEN h = <<x[2]>>
    ELSE /\ Len(h) \in 2..5
         /\ h[1] = 128 + (Len(h) - 1)
         /\ h[2] # 0
         /\ \A j \in 2..Len(h) : h[j] \in 0..255
         /\ BigEndian(Tail(h), x)

\* C3: length round-trip.  Both versions of UnmarshalAsn1ElementLength, on one
\* tag byte followed by MarshalAsn1ElementLength(n), return n without error
\* (the three-result version with the byte count of the header as the bytes
\* consumed), and MarshalAsn1ElementLength(n) is minimal: one byte for
\* n <= 127, else 0x80|k and the k big-endian bytes of n, no leading zero.
\* n and the length returned are halves <<hi, lo>>; n ranges over
\* LengthInputs, up to 2^32-1.
C3_LengthRoundTrip ==
    /\ (pc = "done" /\ kind = "encoded"
          /\ op \in {"UnmarshalAsn1ElementLength", "UnmarshalAsn1ElementLength2"})
        => /\ out.status = "ok"
           /\ out.length = n
           /\ op = "UnmarshalAsn1ElementLength" => out.consumed = Len(buf) - 1
    /\ (pc = "done" /\ op = "MarshalAsn1ElementLength")
        => IsMinimalHeader(n, out.bytes)

\* a long-form length has been encoded, decoded and found again
C3_Witness ==
    /\ pc = "done"
    /\ op = "UnmarshalAsn1ElementLength"
    /\ kind = "encoded"
    /\ n = <<0, 300>>
    /\ buf = <<4, 130, 1, 44>>
    /\ out.length = <<0, 300>>
    /\ out.consumed = 3

\* C4: flat sequence parse.  ParseMultiIEs on the concatenation of the
\* MarshalBinary outputs of N >= 0 primitive IEs built by NewIE returns no
\* error and exactly these N IEs, in order, equal in tag, length and value
\* (the loop ends only with the cursor at the end of the buffer).
C4_FlatSequence ==
    (pc = "done" /\ op = "ParseMultiIEs" /\ kind = "marshalled")
        => /\ out.status = "ok"
           /\ Len(out.ies) = Len(from)
           /\ \A j \in 1..Len(from) : SameIE(out.ies[j], from[j])

\* C5: recursive parse of a constructed element.  ParseAsBER on the encoding
\* of a constructed IE whose value is the concatenation of the encodings of
\* k >= 1 primitive IEs, followed by further top-level elements, returns the
\* constructed IE with exactly these k children (tag and value), and then
\* the further elements, in order.
C5_RecursiveParse ==
    (pc = "done" /\ op = "ParseAsBER" /\ kind = "constructed")
        => /\ out.status = "ok"
           /\ Len(out.ies) = Len(from)
           /\ \A j \in 1..Len(from) : SameTagValue(out.ies[j], from[j])
           /\ Len(out.ies[1].IE) = Len(from[1].IE)
           /\ \A j \in 1..Len(from[1].IE) : SameTagValue(out.ies[1].IE[j], from[1].IE[j])

\* C6: no aborts.  Every call of ParseIE, ParseMultiIEs, ParseIERecursive and
\* ParseAsBER on any buffer, and of MarshalBinary and MarshalTo on any IE that
\* NewIE or a parse returned, returns a result or an error: none panics.
C6_NoAborts ==
    (pc = "done" /\ op \in ParseOps \cup {"MarshalBinary", "MarshalTo"})
        => out.status # "panic"

\* the first element of b is constructed and fits in b, and the first element
\* nested in its value declares a length that overruns the value
NestedOverrun(b) ==
    /\ Len(b) >= 4
    /\ Form(b[1]) = 1
    /\ b[2] >= 2
    /\ b[2] <= 127
    /\ 2 + b[2] <= Len(b)
    /\ b[4] <= 127
    /\ 2 + b[4] > b[2]

\* C7: lenient nested parse.  ParseAsBER on a buffer whose constructed
\* top-level element fits but holds a nested element with a declared length
\* that overruns the value does not fail: it returns the top-level element
\* without error.
C7_LenientNested ==
    (pc = "done" /\ op = "ParseAsBER" /\ NestedOverrun(buf))
        => /\ out.status = "ok"
           /\ Len(out.ies) >= 1
           /\ out.ies[1].Tag = buf[1]

\* b holds fewer bytes than its first element needs: the tag byte, the bytes
\* of the length header (short or long form), the declared length
Truncated(b) ==
    \/ Len(b) < 2
    \/ LET u == UnmarshalAsn1ElementLength(b)
       IN  \/ u.err = ErrShortLongForm
           \/ u.err = Nil /\ (u.beyond \/ Len(b) < 1 + u.consumed + u.length)

\* C8: strict flat parse.  ParseIE, and ParseMultiIEs for the first element
\* of a non-empty buffer, on a buffer that holds fewer bytes than the element
\* needs, return an error and no IE.
C8_StrictFlat ==
    (pc = "done" /\ op \in {"ParseIE", "ParseMultiIEs"} /\ Len(buf) > 0 /\ Truncated(buf))
        => /\ out.status = "err"
           /\ out.ies = <<>>

\* C9: length/value invariant.  Every IE that NewIE or a parse operation
\* returns without error, children at every depth included, has its Length
\* equal to the number of bytes of its Value.
C9_LengthValue ==
    (pc = "done" /\ op \in ParseOps \cup {"NewIE"} /\ out.status = "ok")
        => \A i \in AllIEs(out.ies) : i.Length = Len(i.Value)

\* C10: termination.  Every step of a running ParseMultiIEs, ParseIERecursive
\* or ParseAsBER ends the call (a result, an error, an abort), or returns from
\* a nested ParseAsBER, or enters a nested ParseAsBER on a value strictly
\* shorter than the buffer of the enclosing call, or has read an element
\* without moving the cursor yet, or moves the cursor by at least 2 bytes.
C10_Progress ==
    [][pc = "running" =>
        \/ pc' = "done"
        \/ Len(stack') < Len(stack)
        \/ /\ Len(stack') = Len(stack) + 1
           /\ TopOf(stack').fn = "ParseAsBER"
           /\ Len(TopOf(stack').b) < Len(TopOf(stack).b)
           /\ stack'[Len(stack)].b = TopOf(stack).b
           /\ stack'[Len(stack)].st = "wait"
        \/ /\ Len(stack') = Len(stack)
           /\ TopOf(stack).st = "loop"
           /\ TopOf(stack').st = "advance"
           /\ TopOf(stack').b = TopOf(stack).b
        \/ /\ Len(stack') = Len(stack)
           /\ TopOf(stack').st = "loop"
           /\ Len(TopOf(stack').b) + 2 <= Len(TopOf(stack).b)]_vars

\* a nested ParseAsBER has moved its cursor past one element and has more to read
C10_Witness ==
    /\ pc = "running"
    /\ Len(stack) >= 2
    /\ TopOf(stack).fn = "ParseAsBER"
    /\ TopOf(stack).st = "loop"
    /\ Len(TopOf(stack).ies) >= 1
    /\ Len(TopOf(stack).b) >= 2

\* every call that was started returns
Terminates == (pc = "running") ~> (pc = "done")

=============================================================================
